---- MODULE Spec2Model ----
(***************************************************************************)
(* A run of the packaging descriptor setup.py of glfwt.                    *)
(*                                                                         *)
(* The descriptor is a straight-line script: it imports setuptools,        *)
(* computes the directory of the script from __file__, reads README.rst    *)
(* from that directory inside a with-block and calls setup() once with a   *)
(* fixed set of keyword arguments.  The model is one run of the script in  *)
(* an environment made of a small directory tree (with one symbolic link), *)
(* the working directory and command line the interpreter was started      *)
(* with, the README.rst files on disk and whether setuptools is installed. *)
(*                                                                         *)
(* Paths are records [abs, parts]: parts is the sequence of components and *)
(* abs says whether the path starts at the root.  File contents are        *)
(* sequences of bytes; text is a sequence of characters.                   *)
(***************************************************************************)
EXTENDS Integers, Sequences, FiniteSets, TLC

VARIABLES
    pc,         \* position of the script: the statement to run next
    cwd,        \* working directory of the process (a real directory)
    file,       \* the value of __file__
    installed,  \* whether the setuptools distribution is importable
    disk,       \* real directory -> <<>> (no README.rst) or <<bytes>>
    ns,         \* module globals bound so far (name -> value)
    files,      \* file objects created by the run, in order of creation
    pending,    \* exception raised inside the with-block, not yet propagated
    exc,        \* exception that ended the run ("none" while there is none)
    calls       \* keyword arguments of every setup() call made, in order

vars == <<pc, cwd, file, installed, disk, ns, files, pending, exc, calls>>

----------------------------------------------------------------------------
(* Bounds of the model.                                                    *)

\* longest README.rst, in bytes
MaxLen == 2
\* most directory components in front of "setup.py" on the command line
MaxArgvDepth == 2

----------------------------------------------------------------------------
(* The environment: a directory tree with one symbolic link.               *)
(*     /p        /p/s        /w        /w/l -> /p/s                        *)

Root == <<>>
Dirs == {Root, <<"p">>, <<"p", "s">>, <<"w">>}
LinkAt == <<"w", "l">>
LinkTarget == <<"p", "s">>
\* a component that leads nowhere
NoDir == <<"?">>

\* names a command line may use as directory components
Components == {"p", "s", "w", "l", "..", "."}

\* bytes of a README.rst: a letter, carriage return, line feed, and a byte
\* the locale's codec cannot decode
Bytes == {"x", "CR", "LF", "BAD"}

BoundedSeq(S, n) == UNION {[1..k -> S] : k \in 0..n}

Front(s) == SubSeq(s, 1, Len(s) - 1)
Last(s) == s[Len(s)]

\* The kernel's path walk: "." stays, ".." goes to the parent of the
\* directory actually reached, a symbolic link is followed.
WalkStep(cur, c) ==
    IF cur = NoDir THEN NoDir
    ELSE IF c = "." THEN cur
    ELSE IF c = ".." THEN (IF cur = Root THEN Root ELSE Front(cur))
    ELSE IF Append(cur, c) = LinkAt THEN LinkTarget
    ELSE IF Append(cur, c) \in Dirs THEN Append(cur, c)
    ELSE NoDir

RECURSIVE Walk(_, _)
Walk(cur, parts) ==
    IF parts = <<>> THEN cur ELSE Walk(WalkStep(cur, Head(parts)), Tail(parts))

\* the real directory a directory path denotes for a process in directory wd
ResolveDir(wd, path) == Walk(IF path.abs THEN Root ELSE wd, path.parts)

----------------------------------------------------------------------------
(* os.path on POSIX.                                                       *)

\* os.path.dirname: everything in front of the last component
dirname(path) == [abs |-> path.abs, parts |-> Front(path.parts)]

\* os.path.join(a, b): b replaces a when b is absolute
join(a, b) ==
    IF b.abs THEN b ELSE [abs |-> a.abs, parts |-> a.parts \o b.parts]

\* os.path.normpath: "." is dropped and "x/.." is collapsed on the text of
\* the path, without looking at the file system; ".." at the root is dropped
RECURSIVE NormParts(_, _, _)
NormParts(abs, done, rest) ==
    IF rest = <<>> THEN done
    ELSE LET c == Head(rest) IN
         IF c = "." THEN NormParts(abs, done, Tail(rest))
         ELSE IF c = ".."
              THEN IF done # <<>> /\ Last(done) # ".."
                   THEN NormParts(abs, Front(done), Tail(rest))
                   ELSE IF abs THEN NormParts(abs, done, Tail(rest))
                        ELSE NormParts(abs, Append(done, c), Tail(rest))
         ELSE NormParts(abs, Append(done, c), Tail(rest))

normpath(path) == [abs |-> path.abs, parts |-> NormParts(path.abs, <<>>, path.parts)]

\* os.path.abspath in working directory wd
abspath(wd, path) ==
    normpath(join([abs |-> TRUE, parts |-> wd], path))

----------------------------------------------------------------------------
(* Files.                                                                  *)

README == "README.rst"

\* the bytes of the file a path names, as <<bytes>>, or <<>> when the
\* directory or the file does not exist
FileAt(d, path) ==
    LET dir == ResolveDir(cwd, dirname(path)) IN
    IF dir \in Dirs /\ Last(path.parts) = README THEN d[dir] ELSE <<>>

\* variant: undecodable bytes are skipped instead of raising (errors="ignore")
DecodableIgnoringErrors(bytes) == TRUE

\* text mode decodes with the locale's codec: one undecodable byte makes
\* read() raise UnicodeDecodeError
Decodable(bytes) == \A i \in 1..Len(bytes) : bytes[i] # "BAD"

\* text mode translates newlines (newline=None): "\r\n" and a lone "\r"
\* both become "\n"
RECURSIVE Translate(_)
Translate(bytes) ==
    IF bytes = <<>> THEN <<>>
    ELSE IF Head(bytes) = "CR"
         THEN IF Len(bytes) > 1 /\ bytes[2] = "LF"
              THEN <<"LF">> \o Translate(SubSeq(bytes, 3, Len(bytes)))
              ELSE <<"LF">> \o Translate(Tail(bytes))
         ELSE <<Head(bytes)>> \o Translate(Tail(bytes))

\* variant: read(1), a read of one character only
ReadOne(bytes, pos) ==
    Translate(IF Len(bytes) > pos THEN <<bytes[pos + 1]>> ELSE <<>>)

\* file.read() with no size: everything from the position to the end
ReadAll(bytes, pos) == Translate(SubSeq(bytes, pos + 1, Len(bytes)))

\* the position read() leaves behind: the end of the file
ReadEnd(bytes, pos) == Len(bytes)

\* binding a module global
Bind(n, k, v) == (k :> v) @@ n

----------------------------------------------------------------------------
(* The declaration: the keyword arguments of the setup() call.             *)

\* a bundled file: directory inside the package, base name, extension
DataFile(dir, base, ext) == [dir |-> dir, base |-> base, ext |-> ext]

\* variant: the manifest without the X11 build of the library
PackageFilesWithoutX11 == <<
    DataFile(<<>>, "__init__", "pyi"),
    DataFile(<<>>, "glfw3", "dll"),
    DataFile(<<>>, "libglfw.3", "dylib"),
    DataFile(<<"wayland">>, "libglfw", "so"),
    DataFile(<<>>, "libglfw", "so"),
    DataFile(<<>>, "msvcr100", "dll"),
    DataFile(<<>>, "msvcr110", "dll") >>

\* the package_data list of package glfwt
PackageFiles == <<
    DataFile(<<>>, "__init__", "pyi"),
    DataFile(<<>>, "glfw3", "dll"),
    DataFile(<<>>, "libglfw.3", "dylib"),
    DataFile(<<"wayland">>, "libglfw", "so"),
    DataFile(<<"x11">>, "libglfw", "so"),
    DataFile(<<>>, "libglfw", "so"),
    DataFile(<<>>, "msvcr100", "dll"),
    DataFile(<<>>, "msvcr110", "dll") >>

\* trove classifiers, split at " :: "
Classifiers == <<
    <<"Development Status", "5 - Production/Stable">>,
    <<"Environment", "MacOS X">>,
    <<"Environment", "X11 Applications">>,
    <<"Intended Audience", "Developers">>,
    <<"License", "OSI Approved", "MIT License">>,
    <<"Programming Language", "Python", "2">>,
    <<"Programming Language", "Python", "3">>,
    <<"Topic", "Multimedia", "Graphics">>,
    <<"Topic", "Scientific/Engineering", "Visualization">> >>

\* variant: the declaration without its license keyword
SetupKwargsWithoutLicense(ld) ==
    [ name |-> "glfwt",
      version |-> "2.6.1",
      description |-> "A ctypes-based wrapper for GLFW3 (with typing).",
      long_description |-> ld,
      url |-> "https://github.com/romanin-rf/glfwt",
      author |-> "Florian Rhiem",
      author_email |-> "florian.rhiem@gmail.com",
      classifiers |-> Classifiers,
      packages |-> <<"glfwt">>,
      package_data |-> [p \in {"glfwt"} |-> PackageFiles] ]

\* variant: the declaration still lists the package under the name the
\* wrapper was forked from
SetupKwargsUpstreamPackage(ld) ==
    [ name |-> "glfwt",
      version |-> "2.6.1",
      description |-> "A ctypes-based wrapper for GLFW3 (with typing).",
      long_description |-> ld,
      url |-> "https://github.com/romanin-rf/glfwt",
      author |-> "Florian Rhiem",
      author_email |-> "florian.rhiem@gmail.com",
      license |-> "MIT",
      classifiers |-> Classifiers,
      packages |-> <<"glfw">>,
      package_data |-> [p \in {"glfwt"} |-> PackageFiles] ]

SetupKwargs(ld) ==
    [ name |-> "glfwt",
      version |-> "2.6.1",
      description |-> "A ctypes-based wrapper for GLFW3 (with typing).",
      long_description |-> ld,
      url |-> "https://github.com/romanin-rf/glfwt",
      author |-> "Florian Rhiem",
      author_email |-> "florian.rhiem@gmail.com",
      license |-> "MIT",
      classifiers |-> Classifiers,
      packages |-> <<"glfwt">>,
      package_data |-> [p \in {"glfwt"} |-> PackageFiles] ]

----------------------------------------------------------------------------
(* The run.                                                                *)

\* command lines: [/]c1/.../ck/setup.py
ArgvPaths ==
    {[abs |-> a, parts |-> Append(pre, "setup.py")] :
        a \in BOOLEAN, pre \in BoundedSeq(Components, MaxArgvDepth)}

\* directories that hold a checkout of the project (a setup.py)
Checkouts == {<<"p">>, <<"p", "s">>}

\* the real directory of the running script
ScriptDir == ResolveDir(cwd, dirname(file))

Init ==
    /\ pc = "import"
    /\ cwd \in Dirs
    /\ \E argv \in ArgvPaths :
          /\ ResolveDir(cwd, dirname(argv)) \in Checkouts
             \* __file__ is the command line's path as given, or (from
             \* Python 3.9) that path joined to the working directory
          /\ file \in {argv, join([abs |-> TRUE, parts |-> cwd], argv)}
    /\ installed \in BOOLEAN
    /\ \E readme \in {<<>>} \cup {<<b>> : b \in BoundedSeq(Bytes, MaxLen)},
          others \in SUBSET (Dirs \ {ScriptDir}) :
          disk = [d \in Dirs |-> IF d = ScriptDir THEN readme
                                 ELSE IF d \in others THEN << <<"x">> >>
                                 ELSE <<>>]
    /\ ns = <<>>
    /\ files = <<>>
    /\ pending = "none"
    /\ exc = "none"
    /\ calls = <<>>

\* lines 1-2: from setuptools import setup; import os.path
Import ==
    /\ pc = "import"
    /\ IF installed
       THEN /\ ns' = Bind(Bind(ns, "setup", "setuptools.setup"), "os", "os")
            /\ pc' = "dir"
            /\ exc' = exc
       ELSE /\ ns' = ns
            /\ pc' = "error"
            /\ exc' = "ModuleNotFoundError"
    /\ UNCHANGED <<cwd, file, installed, disk, files, pending, calls>>

\* line 4: setup_directory = os.path.abspath(os.path.dirname(__file__))
ComputeDirectory ==
    /\ pc = "dir"
    /\ ns' = Bind(ns, "setup_directory", abspath(cwd, dirname(file)))
    /\ pc' = "open"
    /\ UNCHANGED <<cwd, file, installed, disk, files, pending, exc, calls>>

\* line 6: with open(os.path.join(setup_directory, 'README.rst')) as readme_file
OpenReadme ==
    /\ pc = "open"
    /\ LET path == join(ns["setup_directory"], [abs |-> FALSE, parts |-> <<README>>]) IN
       IF FileAt(disk, path) = <<>>
       THEN /\ pc' = "error"
            /\ exc' = "FileNotFoundError"
            /\ UNCHANGED <<ns, files>>
       ELSE /\ files' = Append(files, [path |-> path, pos |-> 0, closed |-> FALSE])
            /\ ns' = Bind(ns, "readme_file", Len(files) + 1)
            /\ pc' = "read"
            /\ exc' = exc
    /\ UNCHANGED <<cwd, file, installed, disk, pending, calls>>

\* line 7: long_description = readme_file.read()
ReadReadme ==
    /\ pc = "read"
    /\ LET f == ns["readme_file"]
           bytes == FileAt(disk, files[f].path)[1] IN
       /\ files' = [files EXCEPT ![f].pos = ReadEnd(bytes, files[f].pos)]
       /\ IF Decodable(bytes)
          THEN /\ ns' = Bind(ns, "long_description", ReadAll(bytes, files[f].pos))
               /\ pending' = pending
          ELSE /\ ns' = ns
               /\ pending' = "UnicodeDecodeError"
    /\ pc' = "exit"
    /\ UNCHANGED <<cwd, file, installed, disk, exc, calls>>

\* variant: the file object is not closed when the block is left
ExitFileLeavingOpen(f) == f

\* what leaving the with-block does to the file object
ExitFile(f) == [f EXCEPT !.closed = TRUE]

\* lines 6-7: the with-block is left, normally or by an exception: the
\* file object is closed, and a pending exception ends the run
WithExit ==
    /\ pc = "exit"
    /\ files' = [files EXCEPT ![ns["readme_file"]] = ExitFile(@)]
    /\ IF pending = "none"
       THEN pc' = "call" /\ exc' = exc
       ELSE pc' = "error" /\ exc' = pending
    /\ pending' = "none"
    /\ UNCHANGED <<cwd, file, installed, disk, ns, calls>>

\* lines 9-42: setup(...) is entered with the declaration
CallSetup ==
    /\ pc = "call"
    /\ calls' = Append(calls, SetupKwargs(ns["long_description"]))
    /\ pc' = "setup"
    /\ UNCHANGED <<cwd, file, installed, disk, ns, files, pending, exc>>

\* variant: the declaration is made again after setup() has returned
AfterSetupAgain == IF Len(calls) < 2 THEN "call" ELSE "done"

\* where the script continues when setup() has returned: its end
AfterSetup == "done"

\* setup() returns
SetupReturns ==
    /\ pc = "setup"
    /\ pc' = AfterSetup
    /\ UNCHANGED <<cwd, file, installed, disk, ns, files, pending, exc, calls>>

\* setup() fails inside the packaging tool
SetupRaises ==
    /\ pc = "setup"
    /\ pc' = "error"
    /\ exc' = "SetupError"
    /\ UNCHANGED <<cwd, file, installed, disk, ns, files, pending, calls>>

Next ==
    \/ Import
    \/ ComputeDirectory
    \/ OpenReadme
    \/ ReadReadme
    \/ WithExit
    \/ CallSetup
    \/ SetupReturns
    \/ SetupRaises

Spec == Init /\ [][Next]_vars

----------------------------------------------------------------------------
(* Properties.                                                             *)

\* the README.rst the script of this run looks for, as <<bytes>> or <<>>
ReadmeSought ==
    FileAt(disk, join(abspath(cwd, dirname(file)),
                      [abs |-> FALSE, parts |-> <<README>>]))

HasBadByte(bytes) == \E i \in 1..Len(bytes) : bytes[i] = "BAD"

AllClosed == \A i \in 1..Len(files) : files[i].closed

\* keywords by which a setup() call declares dependencies
DependencyKeywords ==
    {"install_requires", "requires", "setup_requires", "extras_require",
     "tests_require"}

\* C1 as stated: every setup() call carries name, version, author, license,
\* a dependency declaration and package_data.
C1_SixFieldsDeclared ==
    \A i \in 1..Len(calls) :
        /\ {"name", "version", "author", "license", "package_data"}
              \subseteq DOMAIN calls[i]
        /\ DependencyKeywords \cap DOMAIN calls[i] # {}

\* C1, amended: every setup() call carries name, version, author, license
\* and package_data, and declares no dependency list at all.
C1_FiveFieldsNoDependencies ==
    \A i \in 1..Len(calls) :
        /\ {"name", "version", "author", "license", "package_data"}
              \subseteq DOMAIN calls[i]
        /\ DependencyKeywords \cap DOMAIN calls[i] = {}

\* C1 witness: setup() has been entered with the declaration.
C1_Witness == pc = "setup" /\ Len(calls) = 1 /\ "author" \in DOMAIN calls[1]

\* C2 as stated: a run that has failed has called setup() before failing.
C2_FailsOnlyInsideSetup == pc = "error" => calls # <<>>

\* C2, amended: a run fails before setup() is called exactly when setuptools
\* cannot be imported (ModuleNotFoundError), the README.rst it looks for does
\* not exist (FileNotFoundError) or that file cannot be decoded
\* (UnicodeDecodeError); in every other environment each step before setup()
\* succeeds and a failure can only come from inside setup().
C2_FailuresBeforeSetup ==
    /\ pc = "error" /\ calls = <<>> =>
          \/ exc = "ModuleNotFoundError" /\ ~installed
          \/ exc = "FileNotFoundError" /\ installed /\ ReadmeSought = <<>>
          \/ /\ exc = "UnicodeDecodeError" /\ installed
             /\ ReadmeSought # <<>> /\ HasBadByte(ReadmeSought[1])
    /\ pc \in {"call", "setup", "done"} \/ calls # <<>> =>
          installed /\ ReadmeSought # <<>> /\ ~HasBadByte(ReadmeSought[1])
    /\ pc = "error" /\ calls # <<>> => exc = "SetupError"

\* C2 witness: a README.rst that is there but undecodable has ended the run
\* before setup().
C2_Witness ==
    pc = "error" /\ exc = "UnicodeDecodeError" /\ calls = <<>> /\ installed

\* C3: setup() is called at most once; it has been called exactly once in
\* every run that got past the README; and once setup() has returned the
\* script takes no further step.
C3_DeclaredOnce ==
    /\ [](/\ Len(calls) <= 1
          /\ Len(calls) = 1 <=> (pc \in {"setup", "done"} \/ exc = "SetupError"))
    /\ [][pc = "done" => UNCHANGED vars]_vars

\* C3 witness: the script has ended after its one setup() call.
C3_Witness == pc = "done" /\ Len(calls) = 1 /\ exc = "none"

\* the platforms the package ships a native library for
Platforms == {"windows", "macos", "linux", "linux-wayland", "linux-x11"}

IsFor(platform, f) ==
    CASE platform = "windows" -> f.ext = "dll"
      [] platform = "macos" -> f.ext = "dylib"
      [] platform = "linux" -> f = DataFile(<<>>, "libglfw", "so")
      [] platform = "linux-wayland" -> f = DataFile(<<"wayland">>, "libglfw", "so")
      [] platform = "linux-x11" -> f = DataFile(<<"x11">>, "libglfw", "so")

IsStub(f) == f = DataFile(<<>>, "__init__", "pyi")

\* C4: the package_data list handed to setup() holds a native library for
\* each of Windows, macOS, Linux, Linux/Wayland and Linux/X11, and every
\* entry is the type stub or belongs to exactly one platform.
C4_ManifestCoversPlatforms ==
    \A i \in 1..Len(calls) :
        LET listed == calls[i].package_data["glfwt"] IN
        /\ \A pf \in Platforms : \E j \in 1..Len(listed) : IsFor(pf, listed[j])
        /\ \A j \in 1..Len(listed) :
              Cardinality({pf \in Platforms : IsFor(pf, listed[j])})
                 = (IF IsStub(listed[j]) THEN 0 ELSE 1)

\* C4 witness: a manifest with a Windows library has reached setup().
C4_Witness ==
    /\ calls # <<>>
    /\ \E j \in 1..Len(calls[1].package_data["glfwt"]) :
          IsFor("windows", calls[1].package_data["glfwt"][j])

\* the trove classifier name of a license keyword
LicenseClassifier(license) ==
    CASE license = "MIT" -> "MIT License"
      [] OTHER -> "?"

Elems(s) == {s[j] : j \in 1..Len(s)}

\* C5: in every setup() call the name is the one package of packages, every
\* package_data key is in packages, the version is '2.6.1', and the one
\* 'License ::' classifier names the license of the license keyword.
C5_MetadataConsistent ==
    \A i \in 1..Len(calls) :
        LET kw == calls[i]
            lic == {c \in Elems(kw.classifiers) : Head(c) = "License"} IN
        /\ kw.name = "glfwt"
        /\ kw.packages = <<kw.name>>
        /\ DOMAIN kw.package_data \subseteq Elems(kw.packages)
        /\ kw.version = "2.6.1"
        /\ kw.license = "MIT"
        /\ Cardinality(lic) = 1
        /\ \A c \in lic : Last(c) = LicenseClassifier(kw.license)

\* C5 witness: the declaration has been handed over and setup() has returned.
C5_Witness == pc = "done" /\ calls # <<>> /\ calls[1].packages = <<"glfwt">>

\* C6: when setup() is called, README.rst has been opened, read to its end
\* and closed, and long_description is the text of the whole file as read()
\* gave it (decoded, newlines translated), neither cut short nor replaced.
C6_ReadmeReadBeforeSetup ==
    calls # <<>> =>
        /\ Len(files) = 1
        /\ Last(files[1].path.parts) = README
        /\ files[1].closed
        /\ LET bytes == FileAt(disk, files[1].path)[1] IN
           /\ files[1].pos = Len(bytes)
           /\ ns["long_description"] = Translate(bytes)
           /\ \A i \in 1..Len(calls) :
                 calls[i].long_description = ns["long_description"]

\* C6 witness: setup() got the text of a README.rst whose bytes differ from
\* it (a carriage return was translated).
C6_Witness ==
    /\ calls # <<>>
    /\ calls[1].long_description = <<"x", "LF">>
    /\ FileAt(disk, files[1].path)[1] = <<"x", "CR">>

\* C7: when README.rst cannot be opened or read, setup() is never called and
\* the run never gets past the with-block; in the error state it ends in, no
\* file object is open and long_description was never bound.
C7_UnreadableReadmeEndsRun ==
    /\ installed /\ (ReadmeSought = <<>> \/ HasBadByte(ReadmeSought[1])) =>
          /\ calls = <<>>
          /\ pc \notin {"call", "setup", "done"}
          /\ "long_description" \notin DOMAIN ns
    /\ pc = "error" /\ exc \in {"FileNotFoundError", "UnicodeDecodeError"} =>
          /\ calls = <<>>
          /\ AllClosed
          /\ "long_description" \notin DOMAIN ns

\* C7 witness: read() failed on an open file and the run has ended.
C7_Witness ==
    pc = "error" /\ exc = "UnicodeDecodeError" /\ Len(files) = 1 /\ AllClosed

\* C8: the directory README.rst is looked up in is the directory that holds
\* the running setup.py, whatever the working directory.
C8_ReadmeBesideScript ==
    "setup_directory" \in DOMAIN ns =>
        ResolveDir(cwd, ns["setup_directory"]) = ScriptDir

====
